---- MODULE Spec2Model ----
(***************************************************************************)
(* Queue wait time estimator (queue_wait_time.py).                         *)
(*                                                                         *)
(* Instants are integers counting milliseconds from the simulator's        *)
(* start_time.  Rates, waits, means and variances are exact rationals      *)
(* <<numerator, denominator>> in lowest terms with a positive denominator; *)
(* the program computes them in binary floating point, whose rounding is   *)
(* not represented here.                                                   *)
(***************************************************************************)
EXTENDS Integers, Sequences, FiniteSets, TLC

VARIABLES
    \* QueueSimulator fields
    hours, base_service_time, service_completions, actual_wait_times,
    \* generate_synthetic_data locals and its position
    gpc, hour, emitted, service_multiplier, customers_per_hour,
    current_time, customer_id, returned, calls,
    \* state of the module-level pseudo random generator
    rng,
    \* WaitTimeEstimator fields
    window_size, service_rates, predictions,
    \* the last estimator call: its name, arguments and outcome
    ret,
    \* simulate_public_display_output arguments, locals and position
    dpc, timestamps, update_interval, tick, ticks_done, local

simVars == <<hours, base_service_time, service_completions, actual_wait_times,
             gpc, hour, emitted, service_multiplier, customers_per_hour,
             current_time, customer_id, returned, calls, rng>>
estVars == <<window_size, service_rates, predictions, ret>>
dispVars == <<dpc, timestamps, update_interval, tick, ticks_done, local>>
vars == <<simVars, estVars, dispVars>>

-----------------------------------------------------------------------------
(* Exact rational arithmetic *)

Abs(x) == IF x < 0 THEN -x ELSE x

RECURSIVE GCD(_, _)
GCD(a, b) == IF b = 0 THEN a ELSE GCD(b, a % b)

Reduce(n, d, g) == <<n \div g, d \div g>>
Rat(n, d) ==
    IF d < 0 THEN Reduce(-n, -d, GCD(Abs(n), Abs(d)))
    ELSE Reduce(n, d, GCD(Abs(n), Abs(d)))

Zero == <<0, 1>>
One == <<1, 1>>
RMul(a, b) == Rat(a[1] * b[1], a[2] * b[2])
RLt(a, b) == a[1] * b[2] < b[1] * a[2]
RLe(a, b) == a[1] * b[2] <= b[1] * a[2]

\* a / b as Python evaluates it: a zero divisor raises ZeroDivisionError
RDiv(a, b) ==
    IF b[1] = 0 THEN [raised |-> TRUE, value |-> Zero]
    ELSE [raised |-> FALSE, value |-> Rat(a[1] * b[2], a[2] * b[1])]

\* The least common denominator of a list of rationals, and the list's
\* numerators over it
RECURSIVE CommonDenominator(_)
CommonDenominator(s) ==
    IF s = <<>> THEN 1
    ELSE LET d == CommonDenominator(Tail(s))
         IN  (d * Head(s)[2]) \div GCD(d, Head(s)[2])

Numerators(s, d) == [i \in 1..Len(s) |-> s[i][1] * (d \div s[i][2])]

RECURSIVE Sum(_)
Sum(a) == IF a = <<>> THEN 0 ELSE Head(a) + Sum(Tail(a))

Squares(a) == [i \in 1..Len(a) |-> a[i] * a[i]]

\* np.mean of a non-empty list
MeanOver(a, d) == Rat(Sum(a), Len(a) * d)
Mean(s) == MeanOver(Numerators(s, CommonDenominator(s)), CommonDenominator(s))

\* np.std(s) ** 2, the population variance (ddof = 0) of a non-empty list:
\* the mean of the squared deviations from the mean, which for numerators a
\* over the denominator d is (n * sum(a^2) - sum(a)^2) / (n * d)^2
VarianceFrom(n, d, sum, sumsq) == Rat(n * sumsq - sum * sum, n * n * d * d)
VarianceOver(a, d) == VarianceFrom(Len(a), d, Sum(a), Sum(Squares(a)))
Variance(s) ==
    VarianceOver(Numerators(s, CommonDenominator(s)), CommonDenominator(s))

\* s[-n:] of a Python list
LastN(s, n) == IF Len(s) <= n THEN s ELSE SubSeq(s, Len(s) - n + 1, Len(s))
\* s[:-n] of a Python list
ButLastN(s, n) == IF Len(s) <= n THEN <<>> ELSE SubSeq(s, 1, Len(s) - n)

-----------------------------------------------------------------------------
(* WaitTimeEstimator *)

Trends == {"stable", "speeding_up", "slowing_down"}

\* timedelta.seconds of a difference of d milliseconds: the seconds field of
\* the normalised timedelta (0 <= seconds < 86400), days and the sub-second
\* part dropped
Seconds(d) == (d \div 1000) % 86400

\* the intervals list: (timestamps[i] - timestamps[i-1]).seconds / 60
Intervals(ts) == [i \in 1..(Len(ts) - 1) |-> Rat(Seconds(ts[i + 1] - ts[i]), 60)]

\* current_rate = 1 / avg_interval if avg_interval > 0 else 0
ServiceRateUnguarded(ts) == RDiv(One, Mean(Intervals(ts)))

ServiceRate(ts) ==
    LET avg_interval == Mean(Intervals(ts))
    IN  IF RLt(Zero, avg_interval) THEN RDiv(One, avg_interval)
        ELSE [raised |-> FALSE, value |-> Zero]

\* the comparison of the recent average with the historical one
CompareAverages(recent_avg, historical_avg) ==
    IF RLt(RMul(historical_avg, <<11, 10>>), recent_avg) THEN "speeding_up"
    ELSE IF RLt(recent_avg, RMul(historical_avg, <<9, 10>>)) THEN "slowing_down"
    ELSE "stable"

\* the trend computed from the rate history after the append
TrendOverlappingSlice(rates) ==
    IF Len(rates) < 3 THEN "stable"
    ELSE CompareAverages(Mean(LastN(rates, 3)), Mean(ButLastN(rates, 2)))

Trend(rates) ==
    IF Len(rates) < 3 THEN "stable"
    ELSE CompareAverages(Mean(LastN(rates, 3)),
                         IF Len(rates) > 3 THEN Mean(ButLastN(rates, 3))
                         ELSE Mean(LastN(rates, 3)))

\* self.service_rates.append(current_rate)
AppendRateRolling(rates, r) == LastN(Append(rates, r), 3)

AppendRate(rates, r) == Append(rates, r)

\* the part of calculate_service_rate after current_rate is computed: the
\* append, then the trend from the history the append leaves
RecordRate(current_rate, after) ==
    [raised |-> FALSE, rate |-> current_rate, trend |-> Trend(after),
     rates |-> after]

RateOrRaise(q, rates) ==
    IF q.raised
    THEN [raised |-> TRUE, rate |-> Zero, trend |-> "stable", rates |-> rates]
    ELSE RecordRate(q.value, AppendRate(rates, q.value))

\* calculate_service_rate(timestamps) on an estimator whose rate history is
\* rates: what it returns (or that it raised) and the history it leaves
CalculateServiceRateAlwaysAppends(ts, rates) ==
    IF Len(ts) < 2 THEN RecordRate(Zero, AppendRate(rates, Zero))
    ELSE RateOrRaise(ServiceRate(ts), rates)

CalculateServiceRateResult(ts, rates) ==
    IF Len(ts) < 2
    THEN [raised |-> FALSE, rate |-> Zero, trend |-> "stable", rates |-> rates]
    ELSE RateOrRaise(ServiceRate(ts), rates)

\* estimated_queue_length after the trend adjustment
QueueLengthSwapped(trend) ==
    IF trend = "slowing_down" THEN RMul(<<5, 1>>, <<7, 10>>)
    ELSE IF trend = "speeding_up" THEN RMul(<<5, 1>>, <<15, 10>>)
    ELSE <<5, 1>>

QueueLength(trend) ==
    IF trend = "slowing_down" THEN RMul(<<5, 1>>, <<15, 10>>)
    ELSE IF trend = "speeding_up" THEN RMul(<<5, 1>>, <<7, 10>>)
    ELSE <<5, 1>>

\* the confidence label; np.std(x) < 0.1 is decided as np.std(x)**2 < 0.01
ConfidenceFromFour(rates) ==
    IF Len(rates) < 4 THEN "Low"
    ELSE IF RLt(Variance(LastN(rates, 5)), <<1, 100>>) THEN "High"
    ELSE "Medium"

Confidence(rates) ==
    IF Len(rates) < 5 THEN "Low"
    ELSE IF RLt(Variance(LastN(rates, 5)), <<1, 100>>) THEN "High"
    ELSE "Medium"

\* estimate_wait_time(service_rate, trend) on an estimator whose rate history
\* is rates
WaitOrRaise(q, rates) ==
    [raised |-> q.raised, wait |-> q.value,
     confidence |-> IF q.raised THEN "Low" ELSE Confidence(rates)]

EstimateWaitTimeResult(rate, trend, rates) ==
    IF rate = Zero THEN [raised |-> FALSE, wait |-> Zero, confidence |-> "Low"]
    ELSE WaitOrRaise(RDiv(QueueLength(trend), rate), rates)

NoAnomaly == "None"
HighVariability == "High service variability detected - possible staff interruptions"
MajorSlowdown == "Major slowdown detected - possible system issue"

\* the two checks of detect_anomalies; a > b * 2 between standard deviations
\* is decided on the variances
CompareWindows(recent_var, historical_var, recent_mean, historical_mean) ==
    IF RLt(RMul(historical_var, <<4, 1>>), recent_var) THEN HighVariability
    ELSE IF RLt(recent_mean, RMul(historical_mean, <<1, 2>>)) THEN MajorSlowdown
    ELSE NoAnomaly

\* detect_anomalies with recent and historical split off
Anomaly(recent, historical) ==
    CompareWindows(Variance(recent),
                   IF Len(historical) > 1 THEN Variance(historical)
                   ELSE Variance(recent),
                   Mean(recent), Mean(historical))

\* detect_anomalies(rates)
DetectAnomaliesStdOfOne(rates) ==
    IF Len(rates) < 5 THEN NoAnomaly
    ELSE CompareWindows(Variance(LastN(rates, 5)),
                        IF Len(rates) > 5 THEN Variance(ButLastN(rates, 5))
                        ELSE Variance(LastN(rates, 5)),
                        Mean(LastN(rates, 5)),
                        IF Len(rates) > 5 THEN Mean(ButLastN(rates, 5))
                        ELSE Mean(LastN(rates, 5)))

DetectAnomaliesResult(rates) ==
    IF Len(rates) < 5 THEN NoAnomaly
    ELSE Anomaly(LastN(rates, 5),
                 IF Len(rates) > 5 THEN ButLastN(rates, 5) ELSE LastN(rates, 5))

\* The three operations as steps of the estimator; ret records the call and
\* what it returned.  An operation that raises leaves the estimator as it was.
calculate_service_rate(ts) ==
    /\ ret' = [op |-> "calculate_service_rate", arg |-> ts,
               result |-> CalculateServiceRateResult(ts, service_rates)]
    /\ service_rates' = ret'.result.rates
    /\ UNCHANGED <<window_size, predictions>>

estimate_wait_time(rate, trend) ==
    /\ ret' = [op |-> "estimate_wait_time", arg |-> <<rate, trend>>,
               result |-> EstimateWaitTimeResult(rate, trend, service_rates)]
    /\ UNCHANGED <<window_size, service_rates, predictions>>

detect_anomalies(rates) ==
    /\ ret' = [op |-> "detect_anomalies", arg |-> rates,
               result |-> DetectAnomaliesResult(rates)]
    /\ UNCHANGED <<window_size, service_rates, predictions>>

-----------------------------------------------------------------------------
(* The estimator under an arbitrary sequence of calls *)

\* bound on the length of the rate history
MaxHist == 6

\* WaitTimeEstimator.__init__'s default window_size
DefaultWindowSize == 10

\* windows handed to calculate_service_rate: empty, one timestamp, two one minute
\* apart, two half a second apart, four five minutes apart
Windows ==
    { <<>>, <<0>>, <<0, 60000>>, <<0, 500>>, <<0, 300000, 600000, 900000>> }

\* rates handed to estimate_wait_time
RateArgs == { Zero, <<1, 2>>, One }

NoCall == [op |-> "none", arg |-> <<>>, result |-> <<>>]

\* a simulator on which nothing has run yet
SimIdle(h, b) ==
    /\ hours = h
    /\ base_service_time = b
    /\ service_completions = <<>>
    /\ actual_wait_times = <<>>
    /\ gpc = "idle"
    /\ hour = 0
    /\ emitted = 0
    /\ service_multiplier = 0
    /\ customers_per_hour = 0
    /\ current_time = 0
    /\ customer_id = 0
    /\ returned = <<>>
    /\ calls = 0

\* WaitTimeEstimator.__init__
EstimatorInit(w) ==
    /\ window_size = w
    /\ service_rates = <<>>
    /\ predictions = <<>>
    /\ ret = NoCall

\* the locals of simulate_public_display_output before their first assignment
NoLocals ==
    [service_rate |-> Zero, trend |-> "stable", wait_time |-> Zero,
     confidence |-> "Low", anomaly |-> NoAnomaly]

\* no display run
DisplayIdle ==
    /\ dpc = "idle"
    /\ timestamps = <<>>
    /\ update_interval = 0
    /\ tick = 0
    /\ ticks_done = 0
    /\ local = NoLocals

Init ==
    /\ SimIdle(0, 0)
    /\ rng = 0
    /\ EstimatorInit(DefaultWindowSize)
    /\ DisplayIdle

CallCalculateServiceRate ==
    \E ts \in Windows :
        /\ Len(ts) >= 2 => Len(service_rates) < MaxHist
        /\ calculate_service_rate(ts)
        /\ UNCHANGED <<simVars, dispVars>>

CallEstimateWaitTime ==
    \E rate \in RateArgs, trend \in Trends :
        /\ estimate_wait_time(rate, trend)
        /\ UNCHANGED <<simVars, dispVars>>

CallDetectAnomalies ==
    /\ detect_anomalies(service_rates)
    /\ UNCHANGED <<simVars, dispVars>>

Next ==
    \/ CallCalculateServiceRate
    \/ CallEstimateWaitTime
    \/ CallDetectAnomalies

Spec == Init /\ [][Next]_vars

-----------------------------------------------------------------------------
(* Properties of the estimator, checked under Spec *)

IsCalc == ret.op = "calculate_service_rate"
IsEstimate == ret.op = "estimate_wait_time"
IsDetect == ret.op = "detect_anomalies"

IsPrefix(s, t) == Len(s) <= Len(t) /\ SubSeq(t, 1, Len(s)) = s

\* C2 as stated: detect_anomalies reports no anomaly for every history of 5
\* or 6 non-negative rates.
C2_NoAnomalyAtFiveOrSix ==
    (IsDetect /\ Len(ret.arg) \in {5, 6}) => ret.result = NoAnomaly

\* C2 amended: on a history of 5 or 6 non-negative rates detect_anomalies
\* never reports high variability; with 5 rates it reports no anomaly; with 6
\* rates the single historical sample is still the baseline of the slowdown
\* check, so it reports a major slowdown exactly when the mean of the last 5
\* rates is below half of the first rate, and no anomaly otherwise.
C2_FiveOrSixSamples ==
    (IsDetect /\ Len(ret.arg) \in {5, 6}) =>
        /\ ret.result # HighVariability
        /\ Len(ret.arg) = 5 => ret.result = NoAnomaly
        /\ Len(ret.arg) = 6 =>
              (ret.result = MajorSlowdown
                  <=> RLt(RMul(<<2, 1>>, Mean(Tail(ret.arg))), ret.arg[1]))

C2_Witness ==
    /\ IsDetect
    /\ Len(ret.arg) = 6
    /\ ret.result = MajorSlowdown
    /\ \A i \in 1..6 : RLe(Zero, ret.arg[i])

\* C3 as stated: every call of calculate_service_rate, whatever the length
\* of its window, appends the rate it returns to the rate history.
C3_EveryCallAppends ==
    [][IsCalc' => service_rates' = Append(service_rates, ret'.result.rate)]_vars

\* C3 amended: a call of calculate_service_rate whose window holds at least 2
\* timestamps appends exactly one sample, the rate it returns; a call whose
\* window holds 0 or 1 timestamps appends nothing.  So the history counts the
\* calls made with a window of at least 2 timestamps.
C3_AppendsIffWindowOfTwo ==
    [][IsCalc' =>
          IF Len(ret'.arg) >= 2
          THEN service_rates' = Append(service_rates, ret'.result.rate)
          ELSE service_rates' = service_rates]_vars

C3_Witness ==
    /\ IsCalc
    /\ Len(ret.arg) < 2
    /\ Len(service_rates) = 2
    /\ ret.result.rates = service_rates

\* C4: the rate history is append-only: every step leaves the old history a
\* prefix of the new one, and estimate_wait_time and detect_anomalies leave
\* the rate history and the prediction history unchanged.
C4_AppendOnly ==
    [][/\ IsPrefix(service_rates, service_rates')
       /\ (IsEstimate' \/ IsDetect') =>
              (service_rates' = service_rates /\ predictions' = predictions)]_vars

C4_Witness ==
    /\ IsDetect
    /\ ret.arg = service_rates
    /\ Len(service_rates) = MaxHist
    /\ ret.result = MajorSlowdown

\* C5: the trend returned by a call of calculate_service_rate that appended
\* is a function of the history H it leaves: stable when H has at most 3
\* samples; with 4 or more, speeding_up iff the mean of the last 3 exceeds
\* 1.1 times the mean of the samples before them, slowing_down iff it is
\* below 0.9 times that mean, stable otherwise; stable when all samples are
\* equal.
C5_TrendFromHistory ==
    (IsCalc /\ Len(ret.arg) >= 2) =>
        LET H == service_rates
            n == Len(H)
            t == ret.result.trend
        IN  /\ n <= 3 => t = "stable"
            /\ n >= 4 =>
                  /\ t = "speeding_up" <=>
                        RLt(RMul(<<11, 10>>, Mean(SubSeq(H, 1, n - 3))),
                            Mean(SubSeq(H, n - 2, n)))
                  /\ t = "slowing_down" <=>
                        RLt(Mean(SubSeq(H, n - 2, n)),
                            RMul(<<9, 10>>, Mean(SubSeq(H, 1, n - 3))))
                  /\ t \in Trends
            /\ (\A i \in 1..n : H[i] = H[1]) => t = "stable"

C5_Witness ==
    /\ IsCalc
    /\ Len(ret.arg) >= 2
    /\ Len(service_rates) >= 4
    /\ ret.result.trend = "slowing_down"

\* C6: estimate_wait_time returns confidence Low, never High, while the
\* estimator holds fewer than 5 rate samples, and whenever its rate argument
\* is 0, for every rate and trend argument.
C6_LowBelowFiveSamples ==
    (IsEstimate /\ (Len(service_rates) < 5 \/ ret.arg[1] = Zero)) =>
        ret.result.confidence = "Low"

C6_Witness ==
    /\ IsEstimate
    /\ Len(service_rates) = 4
    /\ \A i \in 1..4 : service_rates[i] = One
    /\ ret.arg[1] = One
    /\ ret.result.confidence = "Low"

\* the mean of the intervals of window ts is 0
ZeroMeanInterval(ts) ==
    \A i \in 1..(Len(ts) - 1) : Seconds(ts[i + 1] - ts[i]) = 0

\* C7: no call raises; calculate_service_rate on a window of 0 or 1
\* timestamps returns (0, stable); a window whose mean interval is 0 yields
\* rate 0; estimate_wait_time with rate 0 returns (0, Low) for every trend.
C7_DegenerateInputs ==
    /\ IsCalc =>
          /\ ~ret.result.raised
          /\ Len(ret.arg) < 2 =>
                (ret.result.rate = Zero /\ ret.result.trend = "stable")
          /\ (Len(ret.arg) >= 2 /\ ZeroMeanInterval(ret.arg)) =>
                ret.result.rate = Zero
    /\ IsEstimate =>
          /\ ~ret.result.raised
          /\ ret.arg[1] = Zero =>
                (ret.result.wait = Zero /\ ret.result.confidence = "Low")

C7_Witness ==
    /\ IsCalc
    /\ Len(ret.arg) >= 2
    /\ ZeroMeanInterval(ret.arg)
    /\ ret.result.rate = Zero
    /\ Len(service_rates) >= 5

\* rates the returned wait is compared at
ProbeRates == { Rat(n, d) : n \in 1..3, d \in 1..3 }

\* the factor of the claim, in tenths
FactorTenths(trend) ==
    IF trend = "slowing_down" THEN 15 ELSE IF trend = "speeding_up" THEN 7 ELSE 10

-----------------------------------------------------------------------------
(* QueueSimulator *)

\* bounds: the longest horizon, the calls of generate_synthetic_data on one
\* simulator, the states of the pseudo random generator
MaxHours == 8
MaxCalls == 2
RngMod == 16

\* base_service_time, in minutes: the default and the value main() passes
BaseTimes == {4, 5}

\* self.patterns
patterns ==
    [morning_rush |-> <<0, 2>>, midday_slowdown |-> <<2, 5>>,
     afternoon_recovery |-> <<5, 7>>, evening_rush |-> <<7, 8>>]

\* the regime of an hour: service_multiplier in tenths and customers_per_hour
RegimeInclusiveBounds(h) ==
    IF patterns.morning_rush[1] <= h /\ h <= patterns.morning_rush[2]
    THEN [service_multiplier |-> 8, customers_per_hour |-> 15]
    ELSE IF patterns.midday_slowdown[1] <= h /\ h <= patterns.midday_slowdown[2]
    THEN [service_multiplier |-> 15, customers_per_hour |-> 8]
    ELSE IF patterns.afternoon_recovery[1] <= h /\ h <= patterns.afternoon_recovery[2]
    THEN [service_multiplier |-> 10, customers_per_hour |-> 12]
    ELSE [service_multiplier |-> 9, customers_per_hour |-> 14]

Regime(h) ==
    IF patterns.morning_rush[1] <= h /\ h < patterns.morning_rush[2]
    THEN [service_multiplier |-> 8, customers_per_hour |-> 15]
    ELSE IF patterns.midday_slowdown[1] <= h /\ h < patterns.midday_slowdown[2]
    THEN [service_multiplier |-> 15, customers_per_hour |-> 8]
    ELSE IF patterns.afternoon_recovery[1] <= h /\ h < patterns.afternoon_recovery[2]
    THEN [service_multiplier |-> 10, customers_per_hour |-> 12]
    ELSE [service_multiplier |-> 9, customers_per_hour |-> 14]

\* The random module is a deterministic generator with a hidden state; the
\* seed is arbitrary.  One draw advances the state.
NextRandom(x) == (5 * x + 3) % RngMod

\* random.uniform(0.7, 1.3), in hundredths, from generator state x
Uniform(x) == 70 + 15 * (x % 5)

\* random.random() < 0.05 from generator state x
Interruption(x) == x = 0

\* service_time of one event in thousandths of a minute: base_service_time
\* (minutes) * service_multiplier (tenths) * complexity (hundredths), plus 10
\* minutes on an interruption
ServiceTime(base, multiplier, complexity, interrupted) ==
    base * multiplier * complexity + (IF interrupted THEN 10000 ELSE 0)

\* timedelta(minutes=service_time) in milliseconds (a thousandth of a minute
\* is 60 ms: no rounding to the microsecond occurs)
Timedelta(service_time) == service_time * 60

\* start_time = datetime.now().replace(hour=8, minute=0, second=0): 08:00:00
\* of the day of the call, the origin of the instants, plus the sub-second
\* part of now(), which replace() keeps.  Calls are made on one day.
StartTimes == {0, 500}

\* customer_id = 1 at the start of every call
FirstCustomerId == 1

\* lines 45-47
generate_begin ==
    /\ gpc \in {"idle", "returned"}
    /\ calls < MaxCalls
    /\ calls' = calls + 1
    /\ current_time' \in StartTimes
    /\ customer_id' = FirstCustomerId
    /\ hour' = 0
    /\ gpc' = "hour"
    /\ UNCHANGED <<hours, base_service_time, service_completions,
                   actual_wait_times, emitted, service_multiplier,
                   customers_per_hour, returned, rng>>

\* lines 49-66: the next hour of the outer loop and its regime
generate_hour ==
    /\ gpc = "hour"
    /\ hour < hours
    /\ service_multiplier' = Regime(hour).service_multiplier
    /\ customers_per_hour' = Regime(hour).customers_per_hour
    /\ emitted' = 0
    /\ gpc' = "event"
    /\ UNCHANGED <<hours, base_service_time, service_completions,
                   actual_wait_times, hour, current_time, customer_id,
                   returned, calls, rng>>

\* the event appended by one pass of the inner loop
NewEvent(service_time) ==
    [timestamp |-> current_time + Timedelta(service_time),
     customer_id |-> customer_id,
     actual_service_time |-> service_time]

\* lines 68-90: one pass of the inner loop; the last pass of an hour moves
\* the outer loop on
generate_event ==
    /\ gpc = "event"
    /\ LET service_time ==
               ServiceTime(base_service_time, service_multiplier, Uniform(rng),
                           Interruption(NextRandom(rng)))
       IN  /\ current_time' = current_time + Timedelta(service_time)
           /\ service_completions' =
                  Append(service_completions, NewEvent(service_time))
    /\ rng' = NextRandom(NextRandom(rng))
    /\ actual_wait_times' =
           IF customer_id > 1
           THEN Append(actual_wait_times,
                       Rat(Seconds(current_time' -
                               service_completions[Len(service_completions)].timestamp),
                           60))
           ELSE actual_wait_times
    /\ customer_id' = customer_id + 1
    /\ emitted' = emitted + 1
    /\ IF emitted + 1 < customers_per_hour
       THEN UNCHANGED <<gpc, hour>>
       ELSE gpc' = "hour" /\ hour' = hour + 1
    /\ UNCHANGED <<hours, base_service_time, service_multiplier,
                   customers_per_hour, returned, calls>>

\* line 92: the DataFrame of everything in self.service_completions
generate_return ==
    /\ gpc = "hour"
    /\ hour >= hours
    /\ returned' = service_completions
    /\ gpc' = "returned"
    /\ UNCHANGED <<hours, base_service_time, service_completions,
                   actual_wait_times, hour, emitted, service_multiplier,
                   customers_per_hour, current_time, customer_id, calls, rng>>

GenInit ==
    /\ \E h \in 0..MaxHours, b \in BaseTimes : SimIdle(h, b)
    /\ rng \in 0..(RngMod - 1)
    /\ EstimatorInit(DefaultWindowSize)
    /\ DisplayIdle

GenNext ==
    \/ generate_begin /\ UNCHANGED <<estVars, dispVars>>
    \/ generate_hour /\ UNCHANGED <<estVars, dispVars>>
    \/ generate_event /\ UNCHANGED <<estVars, dispVars>>
    \/ generate_return /\ UNCHANGED <<estVars, dispVars>>

GenSpec == GenInit /\ [][GenNext]_vars

\* C1: the sequence a call of generate_synthetic_data returns has strictly
\* increasing timestamps and customer_ids 1, 2, 3, ... in sequence order,
\* after any number of calls on the same simulator.
C1_ReturnedOrderedAndContiguous ==
    gpc = "returned" =>
        /\ \A i \in 1..(Len(returned) - 1) :
              returned[i].timestamp < returned[i + 1].timestamp
        /\ \A i \in 1..Len(returned) : returned[i].customer_id = i

\* the first call alone returns an ordered, contiguously numbered sequence
FirstCallOrderedAndContiguous ==
    (gpc = "returned" /\ calls = 1) =>
        /\ \A i \in 1..(Len(returned) - 1) :
              returned[i].timestamp < returned[i + 1].timestamp
        /\ \A i \in 1..Len(returned) : returned[i].customer_id = i

\* the regimes as the claim lists them, by hour
ClaimedRegime(h) ==
    IF h < 2 THEN <<8, 15>>
    ELSE IF h < 5 THEN <<15, 8>>
    ELSE IF h < 7 THEN <<10, 12>>
    ELSE <<9, 14>>

RECURSIVE ClaimedEvents(_)
ClaimedEvents(h) == IF h = 0 THEN 0 ELSE ClaimedRegime(h - 1)[2] + ClaimedEvents(h - 1)

\* C9: every simulated hour runs under exactly the regime the claim gives it
\* (hours 0-1: 0.8 and 15 events, 2-4: 1.5 and 8, 5-6: 1.0 and 12, 7 and
\* later: 0.9 and 14) and appends exactly that regime's number of events, so
\* an 8-hour run on a fresh simulator returns 92 events.
C9_RegimePerHour ==
    /\ gpc = "event" =>
          /\ <<service_multiplier, customers_per_hour>> = ClaimedRegime(hour)
          /\ emitted < customers_per_hour
    /\ gpc \in {"hour", "event"} =>
          Len(service_completions) =
              Len(returned) + ClaimedEvents(hour)
                  + (IF gpc = "event" THEN emitted ELSE 0)
    /\ (gpc = "returned" /\ calls = 1) =>
          /\ Len(returned) = ClaimedEvents(hours)
          /\ hours = 8 => Len(returned) = 92

C9_Witness ==
    /\ gpc = "returned"
    /\ calls = 1
    /\ hours = 8
    /\ Len(returned) = 92

-----------------------------------------------------------------------------
(* simulate_public_display_output *)

\* bounds: the events of service_data, the update interval, the window size
MaxEvents == 8
MaxInterval == 3
MaxWindowSize == 3

\* completion instants (ms) of two event streams: five minutes apart, and
\* one or two minutes apart with every fourth event half a second after the
\* third
Gap(n) == IF n % 4 = 0 THEN 500 ELSE IF n % 3 = 0 THEN 120000 ELSE 60000

RECURSIVE Irregular(_)
Irregular(n) == IF n = 0 THEN 0 ELSE Irregular(n - 1) + Gap(n)

Streams ==
    { [n \in 1..MaxEvents |-> 300000 * n], [n \in 1..MaxEvents |-> Irregular(n)] }

Max(a, b) == IF a >= b THEN a ELSE b
Min(a, b) == IF a <= b THEN a ELSE b

\* s[a:b] of a Python list: a negative index counts from the end
PyIndex(s, a) == IF a < 0 THEN Max(0, Len(s) + a) ELSE Min(a, Len(s))
PySlice(s, a, b) == SubSeq(s, PyIndex(s, a) + 1, PyIndex(s, b))

\* recent_timestamps = timestamps[max(0, i - estimator.window_size):i]
RecentTimestampsUnclamped(ts, i, w) == PySlice(ts, i - w, i)

RecentTimestamps(ts, i, w) == PySlice(ts, Max(0, i - w), i)

\* lines 300-305: the loop takes its next i and calls calculate_service_rate
display_calculate ==
    /\ dpc = "loop"
    /\ tick < Len(timestamps)
    /\ calculate_service_rate(RecentTimestamps(timestamps, tick, window_size))
    /\ local' = [local EXCEPT !.service_rate = ret'.result.rate,
                              !.trend = ret'.result.trend]
    /\ dpc' = "estimate"
    /\ UNCHANGED <<timestamps, update_interval, tick, ticks_done>>

\* line 306
display_estimate ==
    /\ dpc = "estimate"
    /\ estimate_wait_time(local.service_rate, local.trend)
    /\ local' = [local EXCEPT !.wait_time = ret'.result.wait,
                              !.confidence = ret'.result.confidence]
    /\ dpc' = "detect"
    /\ UNCHANGED <<timestamps, update_interval, tick, ticks_done>>

\* line 307
display_detect ==
    /\ dpc = "detect"
    /\ detect_anomalies(service_rates)
    /\ local' = [local EXCEPT !.anomaly = ret'.result]
    /\ dpc' = "append"
    /\ UNCHANGED <<timestamps, update_interval, tick, ticks_done>>

\* line 309, and the step of the loop to its next i
display_append ==
    /\ dpc = "append"
    /\ predictions' = Append(predictions, <<local.wait_time, local.confidence>>)
    /\ tick' = tick + update_interval
    /\ ticks_done' = ticks_done + 1
    /\ dpc' = "loop"
    /\ UNCHANGED <<window_size, service_rates, ret, timestamps,
                   update_interval, local>>

\* the range of line 300 is exhausted
display_end ==
    /\ dpc = "loop"
    /\ tick >= Len(timestamps)
    /\ dpc' = "done"
    /\ UNCHANGED <<estVars, timestamps, update_interval, tick, ticks_done,
                   local>>

\* a fresh estimator and the entry into the loop of line 300
DisplayInit ==
    /\ SimIdle(0, 0)
    /\ rng = 0
    /\ \E w \in 1..MaxWindowSize : EstimatorInit(w)
    /\ \E s \in Streams, n \in 1..MaxEvents : timestamps = SubSeq(s, 1, n)
    /\ update_interval \in 1..MaxInterval
    /\ tick = update_interval
    /\ ticks_done = 0
    /\ local = NoLocals
    /\ dpc = "loop"

DisplayNext ==
    \/ display_calculate /\ UNCHANGED simVars
    \/ display_estimate /\ UNCHANGED simVars
    \/ display_detect /\ UNCHANGED simVars
    \/ display_append /\ UNCHANGED simVars
    \/ display_end /\ UNCHANGED simVars

DisplaySpec == DisplayInit /\ [][DisplayNext]_vars

\* the ticks among the first n whose window holds at least 2 timestamps: the
\* window of tick j holds min(j * k, w) timestamps
TicksWithWindowOfTwo(n) ==
    Cardinality({ j \in 1..n : Min(j * update_interval, window_size) >= 2 })

\* what the claim says of the ticks: one prediction per completed tick, the
\* last one that of the last tick; one rate sample per completed tick whose
\* window held at least 2 timestamps; floor((N-1)/k) ticks in all
TickCounts ==
    /\ Len(predictions) = ticks_done
    /\ ticks_done > 0 =>
          predictions[ticks_done] = <<local.wait_time, local.confidence>>
    /\ dpc = "done" => ticks_done = (Len(timestamps) - 1) \div update_interval

\* C10 as stated: with the tick counts above, at every point of the run the
\* rate history is no longer than the prediction history, and as long when
\* min(k, w) >= 2.
C10_RatesNeverLonger ==
    /\ dpc \in {"loop", "done"} => TickCounts
    /\ Len(service_rates) <= Len(predictions)
    /\ Min(update_interval, window_size) >= 2 =>
          Len(service_rates) = Len(predictions)

\* C10 amended: the run performs floor((N-1)/k) ticks, each appending one
\* prediction in tick order and, when its window holds at least 2
\* timestamps, one rate sample.  Between ticks (and at the end) the rate
\* history is no longer than the prediction history, and as long when
\* min(k, w) >= 2.  Inside a tick the rate sample is appended before the
\* prediction, so from the return of calculate_service_rate to the append of
\* the prediction the rate history may be one sample ahead.
C10_RatesAtTickBoundaries ==
    /\ dpc \in {"loop", "done"} =>
          /\ TickCounts
          /\ Len(service_rates) = TicksWithWindowOfTwo(ticks_done)
          /\ Len(service_rates) <= Len(predictions)
          /\ Min(update_interval, window_size) >= 2 =>
                Len(service_rates) = Len(predictions)
    /\ dpc \in {"estimate", "detect", "append"} =>
          /\ Len(predictions) = ticks_done
          /\ Len(service_rates) = TicksWithWindowOfTwo(ticks_done + 1)
          /\ Len(service_rates) <= Len(predictions) + 1

C10_Witness ==
    /\ dpc = "done"
    /\ ticks_done >= 3
    /\ 0 < Len(service_rates)
    /\ Len(service_rates) < Len(predictions)

====
